---- MODULE Spec2Model ----
(***************************************************************************)
(* Model of packages/deno/scripts/build.ts: the script that copies every   *)
(* included package of the monorepo into packages/deno/packages, rewriting *)
(* the module specifier of every import/export declaration.                *)
(*                                                                         *)
(* Paths, specifiers and error messages are strings, handled character by  *)
(* character as Node's path module and String.prototype methods do.  The   *)
(* filesystem is one map from absolute path to file content; a directory   *)
(* is either an ancestor of a file or a directory made by mkdir.           *)
(***************************************************************************)
EXTENDS Integers, Sequences, FiniteSets, TLC

(***************************************************************************)
(* String helpers (String.prototype.startsWith / endsWith / indexOf /      *)
(* replace with a string pattern, which replaces the first occurrence).    *)
(***************************************************************************)
CharAt(s, i) == SubSeq(s, i, i)

StartsWith(s, p) == Len(s) >= Len(p) /\ SubSeq(s, 1, Len(p)) = p

EndsWith(s, p) == Len(s) >= Len(p) /\ SubSeq(s, Len(s) - Len(p) + 1, Len(s)) = p

\* Index of the first occurrence of p in s (1-based), 0 when there is none.
IndexOf(s, p) ==
  LET hits == { i \in 1..(Len(s) - Len(p) + 1) : SubSeq(s, i, i + Len(p) - 1) = p }
  IN  IF hits = {} THEN 0 ELSE CHOOSE i \in hits : \A j \in hits : i <= j

Includes(s, p) == IndexOf(s, p) # 0

\* s.replace(p, r) with a string pattern: only the first occurrence.
ReplaceFirst(s, p, r) ==
  LET i == IndexOf(s, p)
  IN  IF i = 0 THEN s
      ELSE SubSeq(s, 1, i - 1) \o r \o SubSeq(s, i + Len(p), Len(s))

\* s.replace(/^([^\.])/, './$1'): a first character other than '.' gets './'
\* put before it; the empty string has no first character.
PrefixDotSlash(s) ==
  IF Len(s) > 0 /\ CharAt(s, 1) # "." THEN "./" \o s ELSE s

(***************************************************************************)
(* Node's posix path module.                                               *)
(***************************************************************************)
\* The '/'-separated pieces of s, empty pieces included.
RECURSIVE SplitFrom(_, _, _)
SplitFrom(s, i, cur) ==
  IF i > Len(s) THEN <<cur>>
  ELSE IF CharAt(s, i) = "/" THEN <<cur>> \o SplitFrom(s, i + 1, "")
  ELSE SplitFrom(s, i + 1, cur \o CharAt(s, i))

Split(s) == SplitFrom(s, 1, "")

\* normalizeString: drops '' and '.', lets '..' take back the segment before
\* it; above the top, '..' is dropped (absolute) or kept (relative).
RECURSIVE NormSegs(_, _, _)
NormSegs(segs, acc, allowAbove) ==
  IF segs = <<>> THEN acc
  ELSE LET h == Head(segs)
           t == Tail(segs)
       IN  IF h = "" \/ h = "." THEN NormSegs(t, acc, allowAbove)
           ELSE IF h = ".."
             THEN IF acc # <<>> /\ acc[Len(acc)] # ".."
                    THEN NormSegs(t, SubSeq(acc, 1, Len(acc) - 1), allowAbove)
                  ELSE IF allowAbove THEN NormSegs(t, Append(acc, ".."), allowAbove)
                  ELSE NormSegs(t, acc, allowAbove)
           ELSE NormSegs(t, Append(acc, h), allowAbove)

RECURSIVE JoinSegs(_)
JoinSegs(segs) ==
  IF segs = <<>> THEN ""
  ELSE IF Len(segs) = 1 THEN segs[1]
  ELSE segs[1] \o "/" \o JoinSegs(Tail(segs))

IsAbsolute(p) == StartsWith(p, "/")

\* The segments of an absolute path, normalized.
AbsSegs(p) == NormSegs(Split(p), <<>>, FALSE)

FromSegs(segs) == "/" \o JoinSegs(segs)

\* path.resolve(a, b) in a process whose working directory is wd: b when it is
\* absolute, else a/b, else wd/a/b; normalized, no trailing slash.
Resolve2(wd, a, b) ==
  IF IsAbsolute(b) THEN FromSegs(AbsSegs(b))
  ELSE IF IsAbsolute(a) THEN FromSegs(AbsSegs(a \o "/" \o b))
  ELSE FromSegs(AbsSegs(wd \o "/" \o a \o "/" \o b))

\* path.resolve(p)
Resolve1(wd, p) == Resolve2(wd, ".", p)

\* path.join(a, b) for a non-empty result: normalize(a + '/' + b).
PathJoin(a, b) ==
  LET joined == a \o "/" \o b
      segs   == NormSegs(Split(joined), <<>>, ~IsAbsolute(joined))
  IN  IF IsAbsolute(joined) THEN FromSegs(segs)
      ELSE IF segs = <<>> THEN "."
      ELSE JoinSegs(segs)

\* path.dirname(p)
Dirname(p) ==
  LET slashes == { i \in 1..Len(p) : CharAt(p, i) = "/" }
      last    == CHOOSE i \in slashes : \A j \in slashes : j <= i
  IN  IF slashes = {} THEN "."
      ELSE IF last = 1 THEN "/"
      ELSE SubSeq(p, 1, last - 1)

\* Length of the longest common prefix of two segment lists.
RECURSIVE CommonLen(_, _)
CommonLen(a, b) ==
  IF a = <<>> \/ b = <<>> \/ Head(a) # Head(b) THEN 0
  ELSE 1 + CommonLen(Tail(a), Tail(b))

\* path.relative(from, to): both are resolved against the working directory
\* first; '' when they are the same path.
Relative(wd, from, to) ==
  LET f == AbsSegs(Resolve1(wd, from))
      t == AbsSegs(Resolve1(wd, to))
      n == CommonLen(f, t)
      ups == [i \in 1..(Len(f) - n) |-> ".."]
  IN  JoinSegs(ups \o SubSeq(t, n + 1, Len(t)))


VARIABLES
  repo,     \* absolute path of the checkout; __dirname is repo/packages/deno/scripts
  cwd,      \* process.cwd()
  fs,       \* the regular files on disk: absolute path -> content
  dirs,     \* the directories made by mkdir (ancestors of files are implied)
  pc,       \* where build() is: "rm", "list", "load", "write", "done", "failed"
  run,      \* "first" or "second" run of build() over the same source tree
  files,    \* getAllFiles: the enumerated source files
  loaded,   \* settled loadFile calls: source file -> result
  tasks,    \* build: the LoadedFiles (and mod files) to write, by task id
  wpc,      \* per task: "mkdir", "write" or "done"
  err,      \* the error build() rejected with
  prev,     \* the output tree the first run left
  res       \* the last call made on the resolver or on loadFile's path rule

vars == <<repo, cwd, fs, dirs, pc, run, files, loaded, tasks, wpc, err, prev, res>>

(***************************************************************************)
(* Configuration of build.ts.                                              *)
(***************************************************************************)
scriptDir == repo \o "/packages/deno/scripts"

packageDir == Resolve2(cwd, scriptDir, "../../")

targetDir == Resolve2(cwd, scriptDir, "../packages")

excludedPackages ==
  {"converter", "deno", "plugin-example", "plugin-prisma", "plugin-prisma-crud",
   "test-utils", "plugin-federation"}

excludedDirs == {"esm", "lib", "test", "tests", "node_modules"}

excludedFiles ==
  {"package.json", "tsconfig.json", "tsconfig.tsbuildinfo", "CHANGELOG.md",
   ".npmignore", "babel.config.js"}

moduleMap ==
  [m \in {"graphql", "zod", "dataloader", "@pothos/core", "@pothos/plugin-directives",
          "graphql/execution/values"} |->
     CASE m = "graphql" -> "https://cdn.skypack.dev/graphql?dts"
       [] m = "zod" -> "https://cdn.skypack.dev/zod@v1.11.17?dts"
       [] m = "dataloader" -> "https://cdn.skypack.dev/dataloader?dts"
       [] m = "@pothos/core" -> "./core/index.ts"
       [] m = "@pothos/plugin-directives" -> "./plugin-directives/index.ts"
       [] m = "graphql/execution/values" ->
            "https://cdn.skypack.dev/graphql/execution/values?dts"]

(***************************************************************************)
(* File contents.  A file is its import/export module specifiers in order  *)
(* (specs), everything else in it (id), and the number of "// @ts-nocheck" *)
(* lines at its top (nocheck).                                             *)
(***************************************************************************)
Content(id, specs) == [nocheck |-> 0, id |-> id, specs |-> specs]

\* The template: an import from and a star export of './index.ts'.
modFile == Content("modFile", <<"./index.ts", "./index.ts">>)

(***************************************************************************)
(* The filesystem as fs.existsSync, fs.statSync and fs.readdir see it.     *)
(***************************************************************************)
Under(p, dir) == StartsWith(p, dir \o "/")

IsFileIn(f, p) == p \in DOMAIN f

IsDirectoryIn(f, d, p) ==
  p = "/" \/ p \in d \/ \E q \in DOMAIN f : Under(q, p)

IsFile(p) == IsFileIn(fs, p)

IsDirectory(p) == IsDirectoryIn(fs, dirs, p)

existsSync(p) == IsFile(p) \/ IsDirectory(p)

\* The names of the entries of directory dir.
Readdir(dir) ==
  { Split(SubSeq(q, Len(dir) + 2, Len(q)))[1] :
      q \in { r \in DOMAIN fs \cup dirs : Under(r, dir) } }

\* Every ancestor directory of p, and p itself.
RECURSIVE Chain(_)
Chain(p) == IF p = "/" \/ p = "." THEN {} ELSE {p} \cup Chain(Dirname(p))

(***************************************************************************)
(* Enumeration: getPackages and getFiles.                                  *)
(***************************************************************************)
getPackages == { e \in Readdir(packageDir) : e \notin excludedPackages }

\* The entries of dir that the filter keeps and, below those that are
\* directories, the files getFiles finds in them.
RECURSIVE getFiles(_, _)
getFiles(dir, root) ==
  UNION { IF IsDirectory(PathJoin(dir, name))
            THEN getFiles(PathJoin(dir, name), FALSE)
            ELSE { PathJoin(dir, name) } :
          name \in { e \in Readdir(dir) :
                       e \notin excludedFiles /\ (~root \/ e \notin excludedDirs) } }

(***************************************************************************)
(* importTransformer: the rewrite of one module specifier, and of a file.  *)
(***************************************************************************)
Ok(mod) == [ok |-> TRUE, mod |-> mod]

Thrown(message) == [ok |-> FALSE, message |-> message]

\* The search with its first two steps swapped: the .ts sibling is tried
\* before the directory.
relativeTargetTsFirst(dirName, mod) ==
  LET modulePath == Resolve2(cwd, dirName, mod)
      tsPath     == modulePath \o ".ts"
      dtsPath    == modulePath \o ".d.ts"
  IN  IF existsSync(tsPath) THEN Ok(tsPath)
      ELSE IF existsSync(modulePath) /\ IsDirectory(modulePath)
        THEN Ok(PathJoin(modulePath, "index.ts"))
      ELSE IF existsSync(dtsPath) THEN Ok(dtsPath)
      ELSE IF ~existsSync(modulePath)
        THEN Thrown("Unable to resolve modulePath " \o modulePath)
      ELSE Ok(mod)

\* The search of lines 111-124: the target chosen for relative specifier mod.
relativeTarget(dirName, mod) ==
  LET modulePath == Resolve2(cwd, dirName, mod)
      tsPath     == modulePath \o ".ts"
      dtsPath    == modulePath \o ".d.ts"
  IN  IF existsSync(modulePath) /\ IsDirectory(modulePath)
        THEN Ok(PathJoin(modulePath, "index.ts"))
      ELSE IF existsSync(tsPath) THEN Ok(tsPath)
      ELSE IF existsSync(dtsPath) THEN Ok(dtsPath)
      ELSE IF ~existsSync(modulePath)
        THEN Thrown("Unable to resolve modulePath " \o modulePath)
      ELSE Ok(mod)

\* Line 126: the target, relative to the referencing directory.
relativeSpecifier(dirName, target) ==
  PrefixDotSlash(Relative(cwd, dirName, target))

\* Lines 128-134: a specifier that moduleMap maps.
mappedSpecifier(dirName, mod) ==
  LET newMod == moduleMap[mod]
  IN  IF StartsWith(newMod, ".")
        THEN Relative(cwd, ReplaceFirst(dirName, "/src", ""),
                      Resolve2(cwd, packageDir, newMod))
        ELSE moduleMap[mod]

\* The visitor on one import/export declaration of file fileName whose
\* module specifier is mod: the new specifier, or the error thrown.
\* moduleMap[mod] is truthy exactly for the keys of the table among the
\* specifiers drawn here (none is a name inherited from Object.prototype).
visitor(fileName, mod) ==
  LET dirName == Dirname(fileName)
  IN  IF StartsWith(mod, ".")
        THEN LET t == relativeTarget(dirName, mod)
             IN  IF t.ok THEN Ok(relativeSpecifier(dirName, t.mod)) ELSE t
      ELSE IF mod \in DOMAIN moduleMap
        THEN Ok(mappedSpecifier(dirName, mod))
      ELSE Thrown("Unknown module " \o mod \o " in " \o fileName)

\* ts.transform over the declarations in order: the first throw ends it.
RECURSIVE transformFrom(_, _, _)
transformFrom(fileName, specs, done) ==
  IF specs = <<>> THEN [ok |-> TRUE, specs |-> done]
  ELSE LET r == visitor(fileName, Head(specs))
       IN  IF r.ok THEN transformFrom(fileName, Tail(specs), Append(done, r.mod))
           ELSE r

importTransformer(fileName, specs) == transformFrom(fileName, specs, <<>>)

(***************************************************************************)
(* loadFile.                                                               *)
(***************************************************************************)
\* Line 62
newPath(file) ==
  ReplaceFirst(Resolve2(cwd, targetDir, Relative(cwd, packageDir, file)), "/src", "")

loadFile(file) ==
  IF EndsWith(file, ".ts")
    THEN LET result == importTransformer(file, fs[file].specs)
         IN  IF result.ok
               THEN [ok |-> TRUE, path |-> newPath(file),
                     content |-> [nocheck |-> fs[file].nocheck + 1,
                                  id      |-> fs[file].id,
                                  specs   |-> result.specs]]
               ELSE result
    ELSE [ok |-> TRUE, path |-> newPath(file), content |-> fs[file]]

\* Lines 93-96
modFiles(projects) ==
  [id \in { "mod:" \o dir : dir \in projects } |->
     [path    |-> PathJoin(PathJoin(targetDir, SubSeq(id, 5, Len(id))), "mod.ts"),
      content |-> modFile]]

(***************************************************************************)
(* Source trees.  The bounded inputs: every tree holds BaseTree (the       *)
(* script itself in the excluded package deno, and package core with an    *)
(* excluded file and an excluded directory) and at most MaxFiles further   *)
(* files.  A file is named by its path below packages/.                    *)
(***************************************************************************)
MaxFiles == 4

SourceFile(path, specs) == [path |-> path, content |-> Content(path, specs)]

BaseTree ==
  { SourceFile("deno/scripts/build.ts", <<"fs">>),
    SourceFile("core/package.json", <<>>),
    SourceFile("core/test/t.ts", <<"..">>) }

\* The files a build is run on.
BuildFiles ==
  { SourceFile("core/src/index.ts", <<"./util", "graphql">>),
    SourceFile("core/index.ts", <<"./src/util">>),
    SourceFile("core/src/util.ts", <<"@pothos/core">>),
    SourceFile("core/src-utils/data.json", <<>>),
    SourceFile("core/mod.ts", <<>>),
    SourceFile("core/src/mod.ts/a.json", <<>>),
    SourceFile("x/src/index.ts", <<"@pothos/core">>),
    SourceFile("x/src/a.ts", <<"left-pad">>),
    SourceFile("x/src/a.ts", <<".", "./missing">>),
    SourceFile("README.md", <<>>) }

\* The files the resolver is called on; their contents play no part.
ResolveFiles ==
  { SourceFile("core/src/index.ts", <<>>),
    SourceFile("core/src/util.ts", <<>>),
    SourceFile("core/src/util.d.ts", <<>>),
    SourceFile("core/src/util/index.ts", <<>>),
    SourceFile("core/src/util/a.ts", <<>>),
    SourceFile("core/src/data.json", <<>>),
    SourceFile("core/index.ts", <<>>),
    SourceFile("core/src-utils/a.ts", <<>>),
    SourceFile("x/src/sub/a.ts", <<>>) }

\* The specifiers the resolver is called with.
Specifiers ==
  { "./util", ".", "..", "./data.json", "./missing", "../src/util/a",
    "@pothos/core", "@pothos/plugin-directives", "graphql", "left-pad" }

\* The sets of at most MaxFiles files of a pool that name each path once.
Choices(pool) ==
  { S \in SUBSET pool :
      /\ Cardinality(S) <= MaxFiles
      /\ \A a, b \in S : a.path = b.path => a = b }

\* The disk holding the files of S in checkout r.
Disk(r, S) ==
  LET full(c) == r \o "/packages/" \o c.path
  IN  [p \in { full(c) : c \in S } |-> (CHOOSE c \in S : full(c) = p).content]

NoFiles == [p \in {} |-> modFile]

NoError == [kind |-> "", message |-> ""]

NoCall == [op |-> "", file |-> "", spec |-> "", result |-> Ok("")]

\* What every run starts from, whatever the disk.
Fresh ==
  /\ dirs = {}
  /\ pc = "rm"
  /\ run = "first"
  /\ files = {}
  /\ loaded = NoFiles
  /\ tasks = NoFiles
  /\ wpc = NoFiles
  /\ err = NoError
  /\ prev = NoFiles
  /\ res = NoCall

\* A build started in packages/deno; the output root may hold a stale file.
Init ==
  /\ repo = "/w"
  /\ cwd = repo \o "/packages/deno"
  /\ \E S \in Choices(BuildFiles), stale \in BOOLEAN :
       fs = Disk(repo, BaseTree \cup S
                         \cup IF stale
                                THEN { SourceFile("deno/packages/core/old.ts", <<>>) }
                                ELSE {})
  /\ Fresh

(***************************************************************************)
(* build()                                                                 *)
(***************************************************************************)
Outside(p, dir) == p # dir /\ ~Under(p, dir)

\* Line 170: fs.rm(targetDir, { recursive: true, force: true })
Rm ==
  /\ pc = "rm"
  /\ fs' = [p \in { q \in DOMAIN fs : Outside(q, targetDir) } |-> fs[p]]
  /\ dirs' = { d \in dirs : Outside(d, targetDir) }
  /\ pc' = "list"
  /\ UNCHANGED <<repo, cwd, run, files, loaded, tasks, wpc, err, prev, res>>

\* Lines 86-92: getPackages, then getFiles on every entry it returned;
\* readdir of an entry that is no directory rejects.
List ==
  /\ pc = "list"
  /\ IF \E e \in getPackages : ~IsDirectory(PathJoin(packageDir, e))
       THEN /\ pc' = "failed"
            /\ err' = [kind |-> "FilesystemError", message |-> "ENOTDIR: scandir"]
            /\ UNCHANGED <<files, loaded>>
       ELSE /\ files' = UNION { getFiles(PathJoin(packageDir, e), TRUE) : e \in getPackages }
            /\ loaded' = NoFiles
            /\ pc' = "load"
            /\ UNCHANGED err
  /\ UNCHANGED <<repo, cwd, fs, dirs, run, tasks, wpc, prev, res>>

\* Lines 61-83: one loadFile call runs on when its file has been read.  The
\* first one to throw rejects getAllFiles, and build with it.
LoadFile(f) ==
  /\ pc \notin {"rm", "list"}
  /\ f \in files \ DOMAIN loaded
  /\ LET r == loadFile(f)
     IN  /\ loaded' = [g \in DOMAIN loaded \cup {f} |-> IF g = f THEN r ELSE loaded[g]]
         /\ IF ~r.ok /\ pc = "load"
              THEN /\ pc' = "failed"
                   /\ err' = [kind |-> "ResolutionError", message |-> r.message]
              ELSE UNCHANGED <<pc, err>>
  /\ UNCHANGED <<repo, cwd, fs, dirs, run, files, tasks, wpc, prev, res>>

\* The wait left out: the writes start while loadFile calls are still pending.
notAwaited == TRUE

\* Line 98: await Promise.all(files.map((file) => loadFile(file)))
allLoaded == files \subseteq DOMAIN loaded

\* Lines 98 and 172-173: getAllFiles returns the LoadedFiles and the mod
\* files, and build starts one write task for each.
StartWrites ==
  /\ pc = "load"
  /\ allLoaded
  /\ LET ok   == { f \in DOMAIN loaded : loaded[f].ok }
         mods == modFiles(getPackages)
     IN  /\ tasks' = [id \in ok \cup DOMAIN mods |->
                        IF id \in ok
                          THEN [path |-> loaded[id].path, content |-> loaded[id].content]
                          ELSE mods[id]]
         /\ wpc' = [id \in ok \cup DOMAIN mods |-> "mkdir"]
  /\ pc' = "write"
  /\ UNCHANGED <<repo, cwd, fs, dirs, run, files, loaded, err, prev, res>>

\* Line 174: fs.mkdir(path.dirname(file.path), { recursive: true })
Mkdir(id) ==
  /\ pc = "write"
  /\ id \in DOMAIN wpc
  /\ wpc[id] = "mkdir"
  /\ LET chain == Chain(Dirname(tasks[id].path))
     IN  IF \E a \in chain : IsFile(a)
           THEN /\ pc' = "failed"
                /\ err' = [kind |-> "FilesystemError", message |-> "ENOTDIR: mkdir"]
                /\ UNCHANGED <<dirs, wpc>>
           ELSE /\ dirs' = dirs \cup { a \in chain : ~IsDirectory(a) }
                /\ wpc' = [wpc EXCEPT ![id] = "write"]
                /\ UNCHANGED <<pc, err>>
  /\ UNCHANGED <<repo, cwd, fs, run, files, loaded, tasks, prev, res>>

\* Line 175: fs.writeFile(file.path, file.content)
Write(id) ==
  /\ pc = "write"
  /\ id \in DOMAIN wpc
  /\ wpc[id] = "write"
  /\ LET t == tasks[id]
     IN  IF IsDirectory(t.path)
           THEN /\ pc' = "failed"
                /\ err' = [kind |-> "FilesystemError", message |-> "EISDIR: open"]
                /\ UNCHANGED <<fs, wpc>>
           ELSE /\ fs' = [p \in DOMAIN fs \cup {t.path} |->
                            IF p = t.path THEN t.content ELSE fs[p]]
                /\ wpc' = [wpc EXCEPT ![id] = "done"]
                /\ UNCHANGED <<pc, err>>
  /\ UNCHANGED <<repo, cwd, dirs, run, files, loaded, tasks, prev, res>>

\* Line 177: await Promise.all(results)
Finish ==
  /\ pc = "write"
  /\ \A id \in DOMAIN wpc : wpc[id] = "done"
  /\ pc' = "done"
  /\ UNCHANGED <<repo, cwd, fs, dirs, run, files, loaded, tasks, wpc, err, prev, res>>

\* The files below the output root.
OutputTree == [p \in { q \in DOMAIN fs : Under(q, targetDir) } |-> fs[p]]

\* Line 180: the script is run again on the tree the first run left.
Again ==
  /\ pc = "done"
  /\ run = "first"
  /\ run' = "second"
  /\ prev' = OutputTree
  /\ pc' = "rm"
  /\ files' = {}
  /\ loaded' = NoFiles
  /\ tasks' = NoFiles
  /\ wpc' = NoFiles
  /\ UNCHANGED <<repo, cwd, fs, dirs, err, res>>

Next ==
  \/ Rm
  \/ List
  \/ \E f \in files : LoadFile(f)
  \/ StartWrites
  \/ \E id \in DOMAIN wpc : Mkdir(id)
  \/ \E id \in DOMAIN wpc : Write(id)
  \/ Finish
  \/ Again

Spec == Init /\ [][Next]_vars

(***************************************************************************)
(* The resolver and loadFile's path rule on their own: any enumerated file *)
(* of any tree, any specifier, any checkout and working directory.         *)
(***************************************************************************)
Checkouts == {"/w", "/src/w"}

WorkingDirs(r) == { r \o "/packages/deno", r \o "/packages/core/src" }

InitResolve ==
  /\ repo \in Checkouts
  /\ cwd \in WorkingDirs(repo)
  /\ \E S \in Choices(ResolveFiles) : fs = Disk(repo, BaseTree \cup S)
  /\ Fresh

\* The files getAllFiles hands to loadFile.
Enumerated ==
  UNION { getFiles(PathJoin(packageDir, e), TRUE) :
          e \in { d \in getPackages : IsDirectory(PathJoin(packageDir, d)) } }

\* The visitor meets a declaration with specifier s in enumerated file f.
Visit(f, s) ==
  /\ EndsWith(f, ".ts")
  /\ res' = [op |-> "visitor", file |-> f, spec |-> s, result |-> visitor(f, s)]
  /\ UNCHANGED <<repo, cwd, fs, dirs, pc, run, files, loaded, tasks, wpc, err, prev>>

\* loadFile computes the output path of enumerated file f.
NewPath(f) ==
  /\ res' = [op |-> "loadFile", file |-> f, spec |-> "", result |-> Ok(newPath(f))]
  /\ UNCHANGED <<repo, cwd, fs, dirs, pc, run, files, loaded, tasks, wpc, err, prev>>

\* One call is made on each disk.
NextResolve ==
  /\ res = NoCall
  /\ \/ \E f \in Enumerated, s \in Specifiers : Visit(f, s)
     \/ \E f \in Enumerated : NewPath(f)

SpecResolve == InitResolve /\ [][NextResolve]_vars

(***************************************************************************)
(* Properties of the resolver (checked under SpecResolve).                 *)
(***************************************************************************)
\* The call is the visitor on a relative specifier s from directory d.
RelativeCall == res.op = "visitor" /\ StartsWith(res.spec, ".")

\* d
RefDir == Dirname(res.file)

\* d/s
Literal == Resolve2(cwd, RefDir, res.spec)

\* The call returned a specifier that, read from d, is path target.
PointsAt(target) ==
  res.result.ok /\ Resolve2(cwd, RefDir, res.result.mod) = target

\* C1: for a relative specifier s from directory d the first applicable
\* target of the ordered search is taken: d/s/index.ts when d/s is a
\* directory (even if d/s.ts exists), else d/s.ts when it exists (even if
\* d/s.d.ts exists), else d/s.d.ts when it exists.
C1_SearchOrder ==
  RelativeCall =>
    /\ IsDirectory(Literal) => PointsAt(Literal \o "/index.ts")
    /\ (~IsDirectory(Literal) /\ existsSync(Literal \o ".ts"))
         => PointsAt(Literal \o ".ts")
    /\ (~IsDirectory(Literal) /\ ~existsSync(Literal \o ".ts")
          /\ existsSync(Literal \o ".d.ts"))
         => PointsAt(Literal \o ".d.ts")

\* C1 witness: d/s is a directory, d/s.ts exists too, and the call returned
\* the directory's index.ts.
C1_Witness ==
  /\ RelativeCall
  /\ IsDirectory(Literal)
  /\ IsFile(Literal \o ".ts")
  /\ PointsAt(Literal \o "/index.ts")

\* C2: when d/s is no directory, neither d/s.ts nor d/s.d.ts exists and d/s
\* is a file, the emitted specifier is s unchanged and still denotes d/s,
\* whatever the working directory of the process.
C2_ExactFileUnchanged ==
  (/\ RelativeCall
   /\ ~IsDirectory(Literal)
   /\ ~existsSync(Literal \o ".ts")
   /\ ~existsSync(Literal \o ".d.ts")
   /\ IsFile(Literal))
    => /\ res.result.ok
       /\ res.result.mod = res.spec
       /\ PointsAt(Literal)

IsRelativeRef(s) == StartsWith(s, "./") \/ StartsWith(s, "../")

\* C3: a bare specifier whose moduleMap value is relative is emitted, from
\* any referencing file, as a specifier that begins with './' or '../' and,
\* read from the referencing file's output directory, is the mapped
\* package's entry file in the output tree.
C3_MappedRelative ==
  (/\ res.op = "visitor"
   /\ res.spec \in DOMAIN moduleMap
   /\ StartsWith(moduleMap[res.spec], "."))
    => /\ res.result.ok
       /\ IsRelativeRef(res.result.mod)
       /\ Resolve2(cwd, Dirname(newPath(res.file)), res.result.mod)
            = Resolve2(cwd, targetDir, moduleMap[res.spec])

\* C4: every resolution failure raises an error whose message names both
\* the offending specifier and the file that referenced it.
C4_ErrorNamesBoth ==
  (res.op = "visitor" /\ ~res.result.ok)
    => /\ Includes(res.result.message, res.spec)
       /\ Includes(res.result.message, res.file)

\* The segments with the first 'src' that is neither the first segment (the
\* package) nor the last (the file name) taken out.
RECURSIVE DropSrc(_, _)
DropSrc(segs, i) ==
  IF i >= Len(segs) THEN segs
  ELSE IF segs[i] = "src" THEN SubSeq(segs, 1, i - 1) \o SubSeq(segs, i + 1, Len(segs))
  ELSE DropSrc(segs, i + 1)

\* The output path C6 describes for source file f.
MirroredPath(f) ==
  LET rel == SubSeq(AbsSegs(f), Len(AbsSegs(packageDir)) + 1, Len(AbsSegs(f)))
  IN  FromSegs(AbsSegs(targetDir) \o DropSrc(rel, 2))

\* C6: loadFile's output path lies under the output root and is the file's
\* path with the source root replaced by the output root and the interior
\* directory segment 'src' removed: a whole segment, never part of another
\* segment's name and never part of the output root's own path.
C6_OutputPath ==
  res.op = "loadFile"
    => /\ Under(res.result.mod, targetDir)
       /\ res.result.mod = MirroredPath(res.file)

(***************************************************************************)
(* Properties of a run of build() (checked under Spec).                    *)
(***************************************************************************)
IsUrl(s) == StartsWith(s, "https://") \/ StartsWith(s, "http://")

\* C5: after a successful run every module specifier of every emitted .ts
\* file is an absolute URL or a relative reference that, read from the
\* emitted file's directory, is a file the run emitted.
C5_SpecifiersResolve ==
  pc = "done" =>
    \A p \in DOMAIN OutputTree :
      EndsWith(p, ".ts") =>
        \A i \in 1..Len(fs[p].specs) :
          LET s == fs[p].specs[i]
          IN  \/ IsUrl(s)
              \/ /\ IsRelativeRef(s)
                 /\ Resolve2(cwd, Dirname(p), s) \in DOMAIN OutputTree

\* C7: the writes of one run go to pairwise distinct output paths.
C7_DistinctPaths ==
  pc \in {"write", "done"} =>
    \A a, b \in DOMAIN tasks : a # b => tasks[a].path # tasks[b].path

\* C8: after a successful run every included package has its mod.ts, holding
\* the template, beside an index.ts.
C8_CompanionModule ==
  pc = "done" =>
    \A e \in getPackages :
      LET dir == PathJoin(targetDir, e)
      IN  /\ IsFile(dir \o "/mod.ts")
          /\ fs[dir \o "/mod.ts"] = modFile
          /\ IsFile(dir \o "/index.ts")

\* C9: a second run over the unchanged source tree leaves the output tree
\* the first run left.
C9_Idempotent ==
  (run = "second" /\ pc = "done") => OutputTree = prev

\* C10: no directory is made and no file written below the output root
\* before every enumerated file has been transformed successfully, so a run
\* that fails in resolution ends with the output root removed.
C10_NoWriteBeforeAllLoaded ==
  /\ (pc = "failed" /\ err.kind = "ResolutionError") => ~existsSync(targetDir)
  /\ (pc # "rm" /\ existsSync(targetDir))
       => \A f \in files : f \in DOMAIN loaded /\ loaded[f].ok

\* C10 witness: a run failed in resolution after another file had been
\* transformed, and the output root, which held a file, is gone.
C10_Witness ==
  /\ pc = "failed"
  /\ err.kind = "ResolutionError"
  /\ \E f \in DOMAIN loaded : loaded[f].ok
  /\ ~existsSync(targetDir)
====
